---- MODULE Spec2Model ----
(***************************************************************************)
(* Motion alarm controller with start/stop (Labos-Zadatak2/sketch.ino,     *)
(* lines 224-746).  The controller is a single cooperative loop(); the     *)
(* statements between two blocking calls (delay, the settle wait, the      *)
(* low-power wait) run as one step, and the environment (motion sensor,    *)
(* button, remote control, the PIR interrupt, the millisecond clock) moves *)
(* between the steps.  Both builds of enterSleep are modelled: "sim" is    *)
(* the build with WOKWI_SIMULACIJA defined (cooperative poll), "hw" is the *)
(* build without it (PIR rising-edge interrupt and power-down halt).       *)
(* The LCD text is not modelled; the backlight is.                         *)
(* The hw build is modelled with the PIR interrupt attached and firing on  *)
(* every rising edge, at once (interrupts are never disabled by the        *)
(* sketch); an edge therefore falls between two steps of the loop.         *)
(***************************************************************************)
EXTENDS Integers, Naturals, FiniteSets, Sequences, TLC

VARIABLES
  build,                    \* "sim" | "hw": WOKWI_SIMULACIJA defined or not
  pc,                       \* position of the main loop
  wakeUpFlag,
  zahtjevZaGasenjeGumbom,
  zahtjevZaGasenjeIR,
  alarmAktivan,
  stanje,
  sustavPokrenut,
  zahtjevZaGasenjeSustava,
  prosloStanjeGumba,        \* static local of loop()
  elapsed,                  \* millis() - prethodno in ticks, saturating
  animMs,                   \* millis() - startBlinkanja during the start-up blink
  elapsedIR,                \* millis() - zadnjeVrijemeIR in ticks, saturating
                            \* (read by AlarmSystem.ino only)
  led, buzzer, backlight,   \* outputs
  pir, gumb,                \* input levels of pirPin and buttonPin
  irPending,                \* frame held by the IR receiver until resume()
  irDecoded,                \* decode() returned true and resume() is still due
  pirRead,                  \* last digitalRead(pirPin) of this loop iteration
  lastKod,                  \* history: the code decoded at line 569 by the last
                            \* iteration of loop() (NEMA if none)
  staleWake,                \* history: wakeUpFlag holds an edge from before the
                            \* last return of resetStanje, and none since
  wakeUpByButton,           \* sleep/wake program (lines 1-135)
  wakeUpByWDT,              \* sleep/wake program
  odPrekida,                \* sleep/wake program: millis() - lastInterruptTime
                            \* in milliseconds, saturating
  irOdbijen,                \* history (AlarmSystem.ino): the last iteration of
                            \* loop() decoded a silence code and did not accept it
  millisSad,                \* millis() as an unsigned long: <<high, low>> halves
  prethodno,                \* time of the last blink toggle, unsigned long
  lastInterruptTime,        \* time of the last accepted press, unsigned long
  stvarno,                  \* history: milliseconds that really passed since
                            \* the stored timestamp, saturating
  usporedba,                \* which comparison a run of SpecWrap exercises
  flag1, flag2,             \* LAB01/sketch.ino: set by the button handlers
  led1, led2,               \* LAB01/sketch.ino: outputs
  tipka1, tipka2,           \* LAB01/sketch.ino: levels of the two button pins
  neodgovoren1,             \* history: button 1 was pressed and no LED response
                            \* has begun since
  neodgovoren2,             \* history: the same for button 2
  btnPressed,               \* priority-button program: btnHighPressed,
                            \* btnMedPressed, btnLowPressed, by priority
  prioLed,                  \* priority-button program: LED_0, LED_1, LED_2
  ledOnTimeNula,            \* ledHighOnTime, ledMedOnTime, ledLowOnTime hold 0
  odPaljenja,               \* milliseconds/PrioTickMs since the on-time was
                            \* written, saturating at the hold time
  prioTipka,                \* levels of BTN_0, BTN_1, BTN_2
  timerFlag,                \* priority-button program
  prioSat                   \* "nula": millis() reads 0; "poz": it reads more

vars == <<build, pc, wakeUpFlag, zahtjevZaGasenjeGumbom, zahtjevZaGasenjeIR,
          alarmAktivan, stanje, sustavPokrenut, zahtjevZaGasenjeSustava,
          prosloStanjeGumba, elapsed, animMs, elapsedIR, led, buzzer, backlight,
          pir, gumb, irPending, irDecoded, pirRead, lastKod, staleWake,
          wakeUpByButton, wakeUpByWDT, odPrekida, irOdbijen,
          millisSad, prethodno, lastInterruptTime, stvarno, usporedba,
          flag1, flag2, led1, led2, tipka1, tipka2, neodgovoren1,
          neodgovoren2, btnPressed, prioLed, ledOnTimeNula, odPaljenja,
          prioTipka, timerFlag, prioSat>>

LOW == FALSE

HIGH == TRUE

\* The variables of the sleep/wake program that the alarm controllers do not
\* have.
swVars == <<wakeUpByButton, wakeUpByWDT, odPrekida>>

\* The absolute clock and the timestamps compared with it.  The controllers
\* above count the time since a timestamp instead (elapsed, odPrekida).
wrapVars == <<millisSad, prethodno, lastInterruptTime, stvarno, usporedba>>

\* The variables of the two-button program (LAB01/sketch.ino).
lab01Vars == <<flag1, flag2, led1, led2, tipka1, tipka2, neodgovoren1,
               neodgovoren2>>

\* The variables of the priority-button program (unnamed/part_000).
prioVars == <<btnPressed, prioLed, ledOnTimeNula, odPaljenja, prioTipka,
              timerFlag, prioSat>>

\* The three priorities of that program.
Prioriteti == {"high", "med", "low"}

\* Its state when it does not run: as after setup().
PrioMiruje ==
  /\ btnPressed = [p \in Prioriteti |-> FALSE]
  /\ prioLed = [p \in Prioriteti |-> LOW]
  /\ ledOnTimeNula = [p \in Prioriteti |-> TRUE]
  /\ odPaljenja = [p \in Prioriteti |-> 0]
  /\ prioTipka = [p \in Prioriteti |-> HIGH]
  /\ timerFlag = FALSE
  /\ prioSat = "nula"

\* The variables that no step of the alarm controllers writes, the iteration
\* of AlarmSystem.ino excepted.
ostalo == <<swVars, irOdbijen, wrapVars, lab01Vars, prioVars>>

\* Resolution of the model's clock in milliseconds.
TickMs == 100

\* Blink period of LED and buzzer in milliseconds.
interval == 300

IR_KOD_PALJENJE == "PLAY"

IR_KOD_GASENJE == "POWER"

IR_KOD_GASENJE_ALARMA == "TIPKA1"

\* Any code that is none of the three known ones.
IR_KOD_NEPOZNAT == "DRUGO"

NEMA == "nema"

IRKodovi == {IR_KOD_PALJENJE, IR_KOD_GASENJE, IR_KOD_GASENJE_ALARMA, IR_KOD_NEPOZNAT}

Min(a, b) == IF a < b THEN a ELSE b

\* Ticks after which trenutno - prethodno >= interval certainly holds.
Cap == (interval + TickMs - 1) \div TickMs

\* elapsed after a delay(ms).
NakonDelay(el, ms) == Min(el + (ms \div TickMs), Cap)

\* loop() is entered from setup() and after every return of loop().
RetLabels == {"boot", "ret_shutdown", "ret_stopped", "ret_alarm", "ret_reset",
              "ret_idle", "ret_sleep"}

AtLoopTop == pc \in RetLabels

\* The 3 s start-up blink of the PLAY branch.
StartupAnimation == {"anim_on", "anim_off"}

Init ==
  /\ build \in {"sim", "hw"}
  /\ pc = "boot"
  /\ wakeUpFlag = FALSE
  /\ zahtjevZaGasenjeGumbom = FALSE
  /\ zahtjevZaGasenjeIR = FALSE
  /\ alarmAktivan = FALSE
  /\ stanje = FALSE
  /\ sustavPokrenut = FALSE
  /\ zahtjevZaGasenjeSustava = FALSE
  /\ prosloStanjeGumba = HIGH
  /\ elapsed = 0
  /\ animMs = 0
  /\ elapsedIR = 0
  /\ led = LOW
  /\ buzzer = LOW
  /\ backlight = TRUE
  /\ pir \in {LOW, HIGH}
  /\ gumb \in {LOW, HIGH}
  /\ irPending = NEMA
  /\ irDecoded = FALSE
  /\ pirRead = "none"
  /\ lastKod = NEMA
  /\ staleWake = FALSE
  /\ wakeUpByButton = FALSE
  /\ wakeUpByWDT = FALSE
  /\ odPrekida = 0
  /\ irOdbijen = FALSE
  /\ millisSad = <<0, 0>>
  /\ prethodno = <<0, 0>>
  /\ lastInterruptTime = <<0, 0>>
  /\ stvarno = 0
  /\ usporedba = "none"
  /\ flag1 = FALSE
  /\ flag2 = FALSE
  /\ led1 = LOW
  /\ led2 = LOW
  /\ tipka1 = HIGH
  /\ tipka2 = HIGH
  /\ neodgovoren1 = FALSE
  /\ neodgovoren2 = FALSE
  /\ PrioMiruje

----------------------------------------------------------------------------
(* Interrupt handler and environment *)

\* An interrupt handler that also activates the alarm.
wakeUp_Aktivira ==
  /\ wakeUpFlag' = TRUE
  /\ alarmAktivan' = TRUE
  /\ UNCHANGED <<zahtjevZaGasenjeGumbom, zahtjevZaGasenjeIR, stanje,
                 sustavPokrenut, zahtjevZaGasenjeSustava, prosloStanjeGumba,
                 led, buzzer, backlight>>

\* ISR of the PIR rising edge (attached only in the hw build): its only
\* statement is wakeUpFlag = true.
wakeUp ==
  /\ wakeUpFlag' = TRUE
  /\ UNCHANGED <<zahtjevZaGasenjeGumbom, zahtjevZaGasenjeIR, alarmAktivan, stanje,
                 sustavPokrenut, zahtjevZaGasenjeSustava, prosloStanjeGumba,
                 led, buzzer, backlight>>

\* The motion level rises.  In the hw build the edge runs wakeUp and ends a
\* power-down halt (sleep_disable and the return of enterSleep follow).
PirRise ==
  /\ pir = LOW
  /\ pir' = HIGH
  /\ IF build = "hw"
     THEN /\ wakeUp
          /\ staleWake' = FALSE
          /\ pc' = IF pc = "halted" THEN "ret_sleep" ELSE pc
     ELSE UNCHANGED <<wakeUpFlag, staleWake, pc, zahtjevZaGasenjeGumbom,
                      zahtjevZaGasenjeIR, alarmAktivan, stanje, sustavPokrenut,
                      zahtjevZaGasenjeSustava, prosloStanjeGumba, led, buzzer,
                      backlight>>
  /\ UNCHANGED <<ostalo, build, elapsedIR, irDecoded, lastKod, elapsed, animMs, gumb, irPending,
                 pirRead>>

PirFall ==
  /\ pir = HIGH
  /\ pir' = LOW
  /\ UNCHANGED <<ostalo, build, elapsedIR, irDecoded, lastKod, pc, wakeUpFlag, zahtjevZaGasenjeGumbom, zahtjevZaGasenjeIR,
                 alarmAktivan, stanje, sustavPokrenut, zahtjevZaGasenjeSustava,
                 prosloStanjeGumba, elapsed, animMs, led, buzzer, backlight,
                 gumb, irPending, pirRead, staleWake>>

\* The button level changes (LOW = pressed, INPUT_PULLUP).
GumbChange ==
  /\ gumb' = ~gumb
  /\ UNCHANGED <<ostalo, build, elapsedIR, irDecoded, lastKod, pc, wakeUpFlag, zahtjevZaGasenjeGumbom, zahtjevZaGasenjeIR,
                 alarmAktivan, stanje, sustavPokrenut, zahtjevZaGasenjeSustava,
                 prosloStanjeGumba, elapsed, animMs, led, buzzer, backlight,
                 pir, irPending, pirRead, staleWake>>

\* A key of the remote is received.  The receiver takes a new frame only
\* after resume(); its sampling timer is stopped in power-down.
IrPress ==
  /\ irPending = NEMA
  /\ pc # "halted"
  /\ \E k \in IRKodovi : irPending' = k
  /\ UNCHANGED <<ostalo, build, elapsedIR, irDecoded, lastKod, pc, wakeUpFlag, zahtjevZaGasenjeGumbom, zahtjevZaGasenjeIR,
                 alarmAktivan, stanje, sustavPokrenut, zahtjevZaGasenjeSustava,
                 prosloStanjeGumba, elapsed, animMs, led, buzzer, backlight,
                 pir, gumb, pirRead, staleWake>>

\* millis() advances (not in power-down, where timer 0 is stopped).
Tick ==
  /\ pc # "halted"
  /\ elapsed < Cap
  /\ elapsed' = elapsed + 1
  /\ UNCHANGED <<ostalo, build, elapsedIR, irDecoded, lastKod, pc, wakeUpFlag, zahtjevZaGasenjeGumbom, zahtjevZaGasenjeIR,
                 alarmAktivan, stanje, sustavPokrenut, zahtjevZaGasenjeSustava,
                 prosloStanjeGumba, animMs, led, buzzer, backlight,
                 pir, gumb, irPending, pirRead, staleWake>>

----------------------------------------------------------------------------
(* loop(): shutdown handling, lines 480-501 *)

\* The shutdown test with a further condition: no alarm in progress.
GasenjeNaRedu_BezAlarma ==
  zahtjevZaGasenjeSustava /\ sustavPokrenut /\ ~alarmAktivan

\* Line 480: if (zahtjevZaGasenjeSustava && sustavPokrenut), the first
\* statement of loop().
GasenjeNaRedu == zahtjevZaGasenjeSustava /\ sustavPokrenut

\* The request is honoured only while the system is started; the message
\* "Sustav ugasen" is shown and delay(3000) begins.
loopShutdown ==
  /\ AtLoopTop
  /\ GasenjeNaRedu
  /\ pc' = "shutdown_hold"
  /\ pirRead' = "none"
  /\ lastKod' = NEMA
  /\ UNCHANGED <<ostalo, build, elapsedIR, irDecoded, wakeUpFlag, zahtjevZaGasenjeGumbom, zahtjevZaGasenjeIR,
                 alarmAktivan, stanje, sustavPokrenut, zahtjevZaGasenjeSustava,
                 prosloStanjeGumba, elapsed, animMs, led, buzzer, backlight,
                 pir, gumb, irPending, staleWake>>

\* Lines 491-494 with wakeUpFlag left as it is.
ShutdownReset_KeepWake ==
  /\ sustavPokrenut' = FALSE
  /\ alarmAktivan' = FALSE
  /\ zahtjevZaGasenjeSustava' = FALSE
  /\ UNCHANGED wakeUpFlag

\* Lines 491-494 with alarmAktivan left as it is.
ShutdownReset_KeepAlarm ==
  /\ sustavPokrenut' = FALSE
  /\ wakeUpFlag' = FALSE
  /\ zahtjevZaGasenjeSustava' = FALSE
  /\ UNCHANGED alarmAktivan

\* Lines 491-494: the state reset of the shutdown.
ShutdownReset ==
  /\ sustavPokrenut' = FALSE
  /\ alarmAktivan' = FALSE
  /\ wakeUpFlag' = FALSE
  /\ zahtjevZaGasenjeSustava' = FALSE

\* Lines 497-498 left out.
ShutdownOutputs_Skip == UNCHANGED <<led, buzzer>>

\* Lines 497-498: LED and buzzer off.
ShutdownOutputs ==
  /\ led' = LOW
  /\ buzzer' = LOW

\* delay(3000) is over: lines 487-500.
loopShutdownDone ==
  /\ pc = "shutdown_hold"
  /\ backlight' = FALSE
  /\ ShutdownReset
  /\ ShutdownOutputs
  /\ staleWake' = FALSE
  /\ elapsed' = NakonDelay(elapsed, 3000)
  /\ pc' = "ret_shutdown"
  /\ UNCHANGED <<ostalo, build, elapsedIR, irDecoded, lastKod, zahtjevZaGasenjeGumbom, zahtjevZaGasenjeIR, stanje,
                 prosloStanjeGumba, animMs, pir, gumb, irPending, pirRead>>

----------------------------------------------------------------------------
(* loop(): lines 653-746, from the sustavPokrenut check to the end *)

\* ugasiAlarm up to its delay(1500): outputs off, "Alarm ugasen" shown.
ugasiAlarm ==
  /\ led' = LOW
  /\ buzzer' = LOW
  /\ pc' = "ugasi_hold"

\* A toggle in every iteration.
ToggleDue_Uvijek(el) == TRUE

\* Lines 695-709: is a toggle of the blink phase due?
ToggleDue(el) == el * TickMs >= interval

\* The low-power wait entered whatever level pirPin reads.
SleepOrIdle_BezRazine ==
  /\ pc' = "sleep_delay"
  /\ pirRead' = IF pir = LOW THEN "LOW" ELSE "HIGH"

\* The level read from pirPin at line 736 decides between sleep and nothing.
SleepOrIdle ==
  IF pir = LOW
  THEN pc' = "sleep_delay" /\ pirRead' = "LOW"
  ELSE pc' = "ret_idle" /\ pirRead' = "HIGH"

\* Activation on the wake flag or on the motion level.
AktivacijaAlarma_IliRazina(wf) == ~alarmAktivan /\ (wf \/ pir = HIGH)

\* Line 664: if (!alarmAktivan && wakeUpFlag).
AktivacijaAlarma(wf) == ~alarmAktivan /\ wf

\* The rest of the iteration runs whether or not the system is started.
Zaustavljen_Nikad(sp) == FALSE

\* Line 653: if (!sustavPokrenut) return.
Zaustavljen(sp) == ~sp

\* The activation leaves the wake flag as it is.
WakeNakon_Ostaje(aktiviraj, wf) == wf

\* Line 666: the activation clears wakeUpFlag.
WakeNakon(aktiviraj, wf) == IF aktiviraj THEN FALSE ELSE wf

\* sp, zg, zir, wf, bl, el: sustavPokrenut, the two silence requests,
\* wakeUpFlag, the backlight and the elapsed time as the lines before 653
\* left them.
ObradaStanja(sp, zg, zir, wf, bl, el) ==
  LET aktiviraj == AktivacijaAlarma(wf)
      toggle == ToggleDue(el)
      st1 == IF toggle THEN ~stanje ELSE stanje
  IN
  /\ zahtjevZaGasenjeGumbom' = zg
  /\ zahtjevZaGasenjeIR' = zir
  /\ IF Zaustavljen(sp)
     THEN \* lines 653-656
          /\ pc' = "ret_stopped"
          /\ pirRead' = "none"
          /\ wakeUpFlag' = wf
          /\ backlight' = bl
          /\ elapsed' = el
          /\ UNCHANGED <<alarmAktivan, stanje, led, buzzer, staleWake>>
     ELSE IF alarmAktivan \/ aktiviraj
     THEN \* lines 664-728
          /\ alarmAktivan' = TRUE
          /\ wakeUpFlag' = WakeNakon(aktiviraj, wf)
          /\ staleWake' = IF aktiviraj THEN FALSE ELSE staleWake
          /\ backlight' = IF aktiviraj THEN TRUE ELSE bl
          /\ stanje' = st1
          /\ elapsed' = IF toggle THEN 0 ELSE el
          /\ pirRead' = "none"
          /\ IF zg \/ zir
             THEN ugasiAlarm
             ELSE /\ led' = IF toggle THEN st1 ELSE led
                  /\ buzzer' = IF toggle THEN st1 ELSE buzzer
                  /\ pc' = "ret_alarm"
     ELSE \* lines 736-745
          /\ SleepOrIdle
          /\ wakeUpFlag' = wf
          /\ backlight' = bl
          /\ elapsed' = el
          /\ UNCHANGED <<alarmAktivan, stanje, led, buzzer, staleWake>>

----------------------------------------------------------------------------
(* loop(): button and IR command, lines 510-643 *)

\* Lines 536-550: falling edge of the button.
GumbPritisnut == prosloStanjeGumba = HIGH /\ gumb = LOW

\* The stored level follows the read one except after an ignored press.
NovoProsloStanje_BezIgnoriranog ==
  IF GumbPritisnut /\ ~alarmAktivan THEN prosloStanjeGumba ELSE gumb

\* Line 558: prosloStanjeGumba = trenutnoStanjeGumba, in every iteration that
\* reads the button.
NovoProsloStanje == gumb

\* A press raises the request whatever the alarm does.
GumbZahtjev_BezUvjeta == GumbPritisnut

\* Lines 536-549: a press raises the request only while the alarm is active.
GumbZahtjev == GumbPritisnut /\ alarmAktivan

\* A final else in place of the test for the silence code.
IRZahtjev_Ostali(kod) ==
  kod \notin {NEMA, IR_KOD_PALJENJE, IR_KOD_GASENJE} /\ alarmAktivan

\* The silence code raises the request whether or not the alarm is active.
IRZahtjev_BezAlarma(kod) == kod = IR_KOD_GASENJE_ALARMA

\* Lines 636-640: the silence code raises the request only while the alarm
\* is active.
IRZahtjev(kod) == kod = IR_KOD_GASENJE_ALARMA /\ alarmAktivan

\* The start branch without its test of sustavPokrenut.
PokretanjeDekodirano_Uvijek(kod) == kod = IR_KOD_PALJENJE

\* Lines 579-581: the PLAY branch starts the system only if it is not started.
PokretanjeDekodirano(kod) == kod = IR_KOD_PALJENJE /\ ~sustavPokrenut

\* Lines 510-746 of an iteration that does not handle a shutdown and does
\* not start the system; kod is what decode() delivered (NEMA: no frame).
Iteracija(kod) ==
  /\ AtLoopTop
  /\ ~GasenjeNaRedu
  /\ ~PokretanjeDekodirano(kod)
  /\ prosloStanjeGumba' = NovoProsloStanje
  /\ irPending' = NEMA
  /\ zahtjevZaGasenjeSustava' =
       IF kod = IR_KOD_GASENJE THEN TRUE ELSE zahtjevZaGasenjeSustava
  /\ ObradaStanja(sustavPokrenut,
                  IF GumbZahtjev THEN TRUE ELSE zahtjevZaGasenjeGumbom,
                  IF IRZahtjev(kod) THEN TRUE ELSE zahtjevZaGasenjeIR,
                  wakeUpFlag, backlight, elapsed)
  /\ UNCHANGED <<ostalo, build, elapsedIR, irDecoded, sustavPokrenut, animMs, pir, gumb>>

loopPoll ==
  /\ Iteracija(irPending)
  /\ lastKod' = irPending

\* Lines 510-598 of an iteration that decodes PLAY while the system is not
\* started: the start-up sequence begins with LED and buzzer on.
loopStart ==
  /\ AtLoopTop
  /\ ~GasenjeNaRedu
  /\ PokretanjeDekodirano(irPending)
  /\ prosloStanjeGumba' = NovoProsloStanje
  /\ zahtjevZaGasenjeGumbom' =
       IF GumbZahtjev THEN TRUE ELSE zahtjevZaGasenjeGumbom
  /\ irDecoded' = TRUE
  /\ lastKod' = irPending
  /\ sustavPokrenut' = TRUE
  /\ wakeUpFlag' = FALSE
  /\ staleWake' = FALSE
  /\ backlight' = TRUE
  /\ animMs' = 0
  /\ led' = HIGH
  /\ buzzer' = HIGH
  /\ pc' = "anim_on"
  /\ pirRead' = "none"
  /\ UNCHANGED <<ostalo, build, elapsedIR, zahtjevZaGasenjeIR, alarmAktivan, stanje,
                 zahtjevZaGasenjeSustava, elapsed, pir, gumb, irPending>>

\* Lines 598-602: delay(250) with the outputs on is over.
animOn ==
  /\ pc = "anim_on"
  /\ led' = LOW
  /\ buzzer' = LOW
  /\ animMs' = animMs + 250
  /\ elapsed' = NakonDelay(elapsed, 250)
  /\ pc' = "anim_off"
  /\ UNCHANGED <<ostalo, build, elapsedIR, irDecoded, lastKod, wakeUpFlag, zahtjevZaGasenjeGumbom, zahtjevZaGasenjeIR,
                 alarmAktivan, stanje, sustavPokrenut, zahtjevZaGasenjeSustava,
                 prosloStanjeGumba, backlight, pir, gumb, irPending, pirRead,
                 staleWake>>

\* Lines 603-609: delay(250) with the outputs off is over; the while
\* condition millis() - startBlinkanja < 3000 is tested again.
animOff ==
  /\ pc = "anim_off"
  /\ elapsed' = NakonDelay(elapsed, 250)
  /\ IF animMs + 250 < 3000
     THEN /\ animMs' = animMs + 250
          /\ led' = HIGH
          /\ buzzer' = HIGH
          /\ pc' = "anim_on"
     ELSE /\ animMs' = 0
          /\ UNCHANGED <<led, buzzer>>
          /\ pc' = "start_msg1"
  /\ UNCHANGED <<ostalo, build, elapsedIR, irDecoded, lastKod, wakeUpFlag, zahtjevZaGasenjeGumbom, zahtjevZaGasenjeIR,
                 alarmAktivan, stanje, sustavPokrenut, zahtjevZaGasenjeSustava,
                 prosloStanjeGumba, backlight, pir, gumb, irPending, pirRead,
                 staleWake>>

\* Lines 609-616: delay(4000) of "Sustav aktivan" is over.
startMsg1 ==
  /\ pc = "start_msg1"
  /\ elapsed' = NakonDelay(elapsed, 4000)
  /\ pc' = "start_msg2"
  /\ UNCHANGED <<ostalo, build, elapsedIR, irDecoded, lastKod, wakeUpFlag, zahtjevZaGasenjeGumbom, zahtjevZaGasenjeIR,
                 alarmAktivan, stanje, sustavPokrenut, zahtjevZaGasenjeSustava,
                 prosloStanjeGumba, animMs, led, buzzer, backlight, pir, gumb,
                 irPending, pirRead, staleWake>>

\* The start-up sequence ends with the backlight left on.
KrajPokretanja_Svijetli == UNCHANGED backlight

\* Lines 618-619: lcd.clear and lcd.noBacklight end the start-up sequence.
KrajPokretanja == backlight' = FALSE

\* Lines 616-621: delay(2000) of "Prelazak u stanje mirovanja" is over and
\* the start-up sequence ends.
startMsg2 ==
  /\ pc = "start_msg2"
  /\ KrajPokretanja
  /\ elapsed' = NakonDelay(elapsed, 2000)
  /\ pc' = "start_done"
  /\ UNCHANGED <<ostalo, build, elapsedIR, irDecoded, lastKod, wakeUpFlag, zahtjevZaGasenjeGumbom,
                 zahtjevZaGasenjeIR, alarmAktivan, stanje, sustavPokrenut,
                 zahtjevZaGasenjeSustava, prosloStanjeGumba, animMs, led, buzzer,
                 pir, gumb, irPending, pirRead, staleWake>>

\* The receiver is left as it is after the start branch.
ResumeNakonPokretanja_Izostaje == UNCHANGED <<irPending, irDecoded>>

\* Line 642: IrReceiver.resume() after the branch of the decoded code.
ResumeNakonPokretanja ==
  /\ irPending' = NEMA
  /\ irDecoded' = FALSE

\* Lines 642-746 of the iteration that started the system.
startDone ==
  /\ pc = "start_done"
  /\ ResumeNakonPokretanja
  /\ ObradaStanja(sustavPokrenut, zahtjevZaGasenjeGumbom, zahtjevZaGasenjeIR,
                  wakeUpFlag, backlight, elapsed)
  /\ UNCHANGED <<ostalo, build, elapsedIR, lastKod, sustavPokrenut, zahtjevZaGasenjeSustava,
                 prosloStanjeGumba, animMs, pir, gumb>>

----------------------------------------------------------------------------
(* Silence: ugasiAlarm and resetStanje, lines 325-369 and 719-727 *)

\* delay(1500) of ugasiAlarm is over; lines 723-724 clear the requests and
\* resetStanje runs up to its delay(2000) ("Stanje mirovanja").
ugasiAlarmDone ==
  /\ pc = "ugasi_hold"
  /\ zahtjevZaGasenjeGumbom' = FALSE
  /\ zahtjevZaGasenjeIR' = FALSE
  /\ alarmAktivan' = FALSE
  /\ elapsed' = NakonDelay(elapsed, 1500)
  /\ pc' = "reset_hold"
  /\ UNCHANGED <<ostalo, build, elapsedIR, irDecoded, lastKod, wakeUpFlag, stanje, sustavPokrenut, zahtjevZaGasenjeSustava,
                 prosloStanjeGumba, animMs, led, buzzer, backlight, pir, gumb,
                 irPending, pirRead, staleWake>>

\* delay(2000) of resetStanje is over: lcd.clear, lcd.noBacklight.
resetStanjeHold ==
  /\ pc = "reset_hold"
  /\ backlight' = FALSE
  /\ elapsed' = NakonDelay(elapsed, 2000)
  /\ pc' = "reset_wait"
  /\ UNCHANGED <<ostalo, build, elapsedIR, irDecoded, lastKod, wakeUpFlag, zahtjevZaGasenjeGumbom, zahtjevZaGasenjeIR,
                 alarmAktivan, stanje, sustavPokrenut, zahtjevZaGasenjeSustava,
                 prosloStanjeGumba, animMs, led, buzzer, pir, gumb, irPending,
                 pirRead, staleWake>>

\* resetStanje without its settle wait.
CekajPir_Nikad == FALSE

\* A settle wait that a shutdown request ends.
CekajPir_DoGasenja == pir = HIGH /\ ~zahtjevZaGasenjeSustava

\* Line 340: while (digitalRead(pirPin) == HIGH).
CekajPir == pir = HIGH

\* Lines 340-343: one test of the settle wait, with its delay(100) while the
\* motion level is HIGH; resetStanje and loop() return once it reads LOW.
resetStanjeWait ==
  /\ pc = "reset_wait"
  /\ pirRead' = IF pir = HIGH THEN "HIGH" ELSE "LOW"
  /\ IF CekajPir
     THEN /\ elapsed' = NakonDelay(elapsed, 100)
          /\ UNCHANGED <<pc, staleWake>>
     ELSE /\ pc' = "ret_reset"
          /\ staleWake' = wakeUpFlag
          /\ UNCHANGED elapsed
  /\ UNCHANGED <<ostalo, build, elapsedIR, irDecoded, lastKod, wakeUpFlag, zahtjevZaGasenjeGumbom, zahtjevZaGasenjeIR,
                 alarmAktivan, stanje, sustavPokrenut, zahtjevZaGasenjeSustava,
                 prosloStanjeGumba, animMs, led, buzzer, backlight, pir, gumb,
                 irPending>>

----------------------------------------------------------------------------
(* Low-power wait: lines 736-745 and enterSleep, lines 385-419 *)

\* The wait condition of the poll loop without the shutdown request.
SleepWaitCond_PirOnly == pir = LOW

\* The wait condition of the poll loop without the motion level.
SleepWaitCond_BezPira == ~zahtjevZaGasenjeSustava

\* Line 396: the condition under which the simulated sleep goes on.
SleepWaitCond == pir = LOW /\ ~zahtjevZaGasenjeSustava

\* delay(200) is over and enterSleep is called.  hw build: sleep_mode()
\* halts the processor.  sim build: the poll loop is entered.
enterSleep ==
  /\ pc = "sleep_delay"
  /\ pc' = IF build = "hw" THEN "halted" ELSE "sim_wait"
  /\ elapsed' = NakonDelay(elapsed, 200)
  /\ UNCHANGED <<ostalo, build, elapsedIR, irDecoded, lastKod, wakeUpFlag, zahtjevZaGasenjeGumbom, zahtjevZaGasenjeIR,
                 alarmAktivan, stanje, sustavPokrenut, zahtjevZaGasenjeSustava,
                 prosloStanjeGumba, animMs, led, buzzer, backlight, pir, gumb,
                 irPending, pirRead, staleWake>>

\* Lines 396-417: one test of the poll loop.  While the condition holds:
\* delay(10), then a decoded frame is examined and the receiver resumed.
\* Otherwise wakeUpFlag is set and enterSleep and loop() return.
enterSleepPoll ==
  /\ pc = "sim_wait"
  /\ pirRead' = IF pir = HIGH THEN "HIGH" ELSE "LOW"
  /\ IF SleepWaitCond
     THEN /\ zahtjevZaGasenjeSustava' =
               IF irPending = IR_KOD_GASENJE THEN TRUE ELSE zahtjevZaGasenjeSustava
          /\ irPending' = NEMA
          /\ UNCHANGED <<pc, wakeUpFlag>>
     ELSE /\ wakeUpFlag' = TRUE
          /\ pc' = "ret_sleep"
          /\ UNCHANGED <<zahtjevZaGasenjeSustava, irPending>>
  /\ UNCHANGED <<ostalo, build, elapsedIR, irDecoded, lastKod, zahtjevZaGasenjeGumbom, zahtjevZaGasenjeIR, alarmAktivan,
                 stanje, sustavPokrenut, prosloStanjeGumba, elapsed, animMs, led,
                 buzzer, backlight, pir, gumb, staleWake>>

----------------------------------------------------------------------------
(* AlarmSystem.ino, the earlier controller without start and stop           *)
(* (sketch.ino lines 748-1124).  It has no sustavPokrenut and no            *)
(* zahtjevZaGasenjeSustava: the former stays TRUE here, the latter FALSE.   *)

\* The second raw code that AlarmSystem.ino accepts as the silence command.
IR_KOD_STARI == "FFA25D"

ASKodovi == IRKodovi \cup {IR_KOD_STARI}

\* Lock-out of the silence command after an accepted one, in milliseconds.
IRRazmak == 500

\* Ticks after which millis() - zadnjeVrijemeIR > IRRazmak certainly holds.
CapIR == (IRRazmak \div TickMs) + 1

NakonDelayIR(el, ms) == Min(el + (ms \div TickMs), CapIR)

\* State at the first call of loop(): setup() has played the start-up
\* sequence (9 s), switched the backlight off and started the receiver.
InitAS ==
  /\ build \in {"sim", "hw"}
  /\ pc = "boot"
  /\ wakeUpFlag = FALSE
  /\ zahtjevZaGasenjeGumbom = FALSE
  /\ zahtjevZaGasenjeIR = FALSE
  /\ alarmAktivan = FALSE
  /\ stanje = FALSE
  /\ sustavPokrenut = TRUE
  /\ zahtjevZaGasenjeSustava = FALSE
  /\ prosloStanjeGumba = HIGH
  /\ elapsed = Cap
  /\ animMs = 0
  /\ elapsedIR = CapIR
  /\ led = LOW
  /\ buzzer = LOW
  /\ backlight = FALSE
  /\ pir \in {LOW, HIGH}
  /\ gumb \in {LOW, HIGH}
  /\ irPending = NEMA
  /\ irDecoded = FALSE
  /\ pirRead = "none"
  /\ lastKod = NEMA
  /\ staleWake = FALSE
  /\ wakeUpByButton = FALSE
  /\ wakeUpByWDT = FALSE
  /\ odPrekida = 0
  /\ irOdbijen = FALSE
  /\ millisSad = <<0, 0>>
  /\ prethodno = <<0, 0>>
  /\ lastInterruptTime = <<0, 0>>
  /\ stvarno = 0
  /\ usporedba = "none"
  /\ flag1 = FALSE
  /\ flag2 = FALSE
  /\ led1 = LOW
  /\ led2 = LOW
  /\ tipka1 = HIGH
  /\ tipka2 = HIGH
  /\ neodgovoren1 = FALSE
  /\ neodgovoren2 = FALSE
  /\ PrioMiruje

asIrPress ==
  /\ irPending = NEMA
  /\ pc # "halted"
  /\ \E k \in ASKodovi : irPending' = k
  /\ UNCHANGED <<ostalo, build, elapsedIR, irDecoded, lastKod, pc, wakeUpFlag,
                 zahtjevZaGasenjeGumbom, zahtjevZaGasenjeIR, alarmAktivan, stanje,
                 sustavPokrenut, zahtjevZaGasenjeSustava, prosloStanjeGumba,
                 elapsed, animMs, led, buzzer, backlight, pir, gumb, pirRead,
                 staleWake>>

\* millis() advances (not in power-down).
asTick ==
  /\ pc # "halted"
  /\ elapsed < Cap \/ elapsedIR < CapIR
  /\ elapsed' = Min(elapsed + 1, Cap)
  /\ elapsedIR' = Min(elapsedIR + 1, CapIR)
  /\ UNCHANGED <<ostalo, build, irDecoded, lastKod, pc, wakeUpFlag, zahtjevZaGasenjeGumbom,
                 zahtjevZaGasenjeIR, alarmAktivan, stanje, sustavPokrenut,
                 zahtjevZaGasenjeSustava, prosloStanjeGumba, animMs, led, buzzer,
                 backlight, pir, gumb, irPending, pirRead, staleWake>>

\* Line 1058, first half: kod is one of the two silence codes.
JeKodGasenja(kod) == kod \in {IR_KOD_GASENJE_ALARMA, IR_KOD_STARI}

\* A silence code is accepted whatever time has passed.
ASPrihvacen_BezRazmaka(kod) == JeKodGasenja(kod)

\* Line 1058: one of the two silence codes, more than 500 ms after the last
\* accepted one.
ASPrihvacen(kod) ==
  /\ JeKodGasenja(kod)
  /\ elapsedIR * TickMs > IRRazmak

\* Lines 990-1124: one iteration of loop() up to its first blocking call.
\* Lines 1074-1124 are lines 664-745 of the later controller.
asLoop ==
  /\ AtLoopTop
  /\ prosloStanjeGumba' = NovoProsloStanje
  /\ irPending' = NEMA
  /\ lastKod' = irPending
  /\ elapsedIR' = IF ASPrihvacen(irPending) THEN 0 ELSE elapsedIR
  /\ irOdbijen' = (JeKodGasenja(irPending) /\ ~ASPrihvacen(irPending))
  /\ ObradaStanja(TRUE,
                  IF GumbZahtjev THEN TRUE ELSE zahtjevZaGasenjeGumbom,
                  IF ASPrihvacen(irPending) THEN TRUE ELSE zahtjevZaGasenjeIR,
                  wakeUpFlag, backlight, elapsed)
  /\ UNCHANGED <<swVars, wrapVars, lab01Vars, prioVars, build, irDecoded, sustavPokrenut, zahtjevZaGasenjeSustava, animMs,
                 pir, gumb>>

\* delay(1500) of ugasiAlarm is over; lines 1108-1109 and 820-827.
asUgasiAlarmDone ==
  /\ pc = "ugasi_hold"
  /\ zahtjevZaGasenjeGumbom' = FALSE
  /\ zahtjevZaGasenjeIR' = FALSE
  /\ alarmAktivan' = FALSE
  /\ elapsed' = NakonDelay(elapsed, 1500)
  /\ elapsedIR' = NakonDelayIR(elapsedIR, 1500)
  /\ pc' = "reset_hold"
  /\ UNCHANGED <<ostalo, build, irDecoded, lastKod, wakeUpFlag, stanje, sustavPokrenut,
                 zahtjevZaGasenjeSustava, prosloStanjeGumba, animMs, led, buzzer,
                 backlight, pir, gumb, irPending, pirRead, staleWake>>

\* delay(2000) of resetStanje is over: lines 828-832.
asResetStanjeHold ==
  /\ pc = "reset_hold"
  /\ backlight' = FALSE
  /\ elapsed' = NakonDelay(elapsed, 2000)
  /\ elapsedIR' = NakonDelayIR(elapsedIR, 2000)
  /\ pc' = "reset_wait"
  /\ UNCHANGED <<ostalo, build, irDecoded, lastKod, wakeUpFlag, zahtjevZaGasenjeGumbom,
                 zahtjevZaGasenjeIR, alarmAktivan, stanje, sustavPokrenut,
                 zahtjevZaGasenjeSustava, prosloStanjeGumba, animMs, led, buzzer,
                 pir, gumb, irPending, pirRead, staleWake>>

\* Lines 836-838: one test of the settle wait.
asResetStanjeWait ==
  /\ pc = "reset_wait"
  /\ pirRead' = IF pir = HIGH THEN "HIGH" ELSE "LOW"
  /\ IF pir = HIGH
     THEN /\ elapsed' = NakonDelay(elapsed, 100)
          /\ elapsedIR' = NakonDelayIR(elapsedIR, 100)
          /\ UNCHANGED <<pc, staleWake>>
     ELSE /\ pc' = "ret_reset"
          /\ staleWake' = wakeUpFlag
          /\ UNCHANGED <<elapsed, elapsedIR>>
  /\ UNCHANGED <<ostalo, build, irDecoded, lastKod, wakeUpFlag, zahtjevZaGasenjeGumbom,
                 zahtjevZaGasenjeIR, alarmAktivan, stanje, sustavPokrenut,
                 zahtjevZaGasenjeSustava, prosloStanjeGumba, animMs, led, buzzer,
                 backlight, pir, gumb, irPending>>

\* Lines 1121-1122 and 878-886: delay(200) is over and enterSleep is called.
asEnterSleep ==
  /\ pc = "sleep_delay"
  /\ pc' = IF build = "hw" THEN "halted" ELSE "sim_wait"
  /\ elapsed' = NakonDelay(elapsed, 200)
  /\ elapsedIR' = NakonDelayIR(elapsedIR, 200)
  /\ UNCHANGED <<ostalo, build, irDecoded, lastKod, wakeUpFlag, zahtjevZaGasenjeGumbom,
                 zahtjevZaGasenjeIR, alarmAktivan, stanje, sustavPokrenut,
                 zahtjevZaGasenjeSustava, prosloStanjeGumba, animMs, led, buzzer,
                 backlight, pir, gumb, irPending, pirRead, staleWake>>

\* Lines 887-891: one test of the poll loop, which watches the motion level
\* only and decodes nothing.
asEnterSleepPoll ==
  /\ pc = "sim_wait"
  /\ pirRead' = IF pir = HIGH THEN "HIGH" ELSE "LOW"
  /\ IF pir = LOW
     THEN UNCHANGED <<pc, wakeUpFlag>>
     ELSE /\ wakeUpFlag' = TRUE
          /\ pc' = "ret_sleep"
  /\ UNCHANGED <<ostalo, build, elapsedIR, irDecoded, lastKod, zahtjevZaGasenjeGumbom,
                 zahtjevZaGasenjeIR, alarmAktivan, stanje, sustavPokrenut,
                 zahtjevZaGasenjeSustava, prosloStanjeGumba, elapsed, animMs, led,
                 buzzer, backlight, pir, gumb, irPending, staleWake>>

MainAS ==
  \/ asLoop
  \/ asUgasiAlarmDone
  \/ asResetStanjeHold
  \/ asResetStanjeWait
  \/ asEnterSleep
  \/ asEnterSleepPoll

EnvAS ==
  \/ PirRise
  \/ PirFall
  \/ GumbChange
  \/ asIrPress
  \/ asTick

NextAS == MainAS \/ EnvAS

SpecAS == InitAS /\ [][NextAS]_vars

----------------------------------------------------------------------------
(* The sleep/wake program with watchdog (sketch.ino lines 1-135): the LED   *)
(* answers a wake-up by the button (5 s) or by the watchdog (1 s), and the  *)
(* processor sleeps in power-down in between.  It uses pc, led and gumb;    *)
(* every other variable of the alarm controllers stays as it is.            *)

\* The variables that only the alarm controllers have.
samoAlarm == <<build, wakeUpFlag, zahtjevZaGasenjeGumbom, zahtjevZaGasenjeIR,
               alarmAktivan, stanje, sustavPokrenut, zahtjevZaGasenjeSustava,
               prosloStanjeGumba, elapsed, animMs, elapsedIR, buzzer, backlight,
               pir, irPending, irDecoded, pirRead, lastKod, staleWake, irOdbijen>>

\* What no step of the sleep/wake program writes.
izvanSW == <<samoAlarm, wrapVars, lab01Vars, prioVars>>

\* Line 110: the debounce window in milliseconds.
DebounceMs == 250

\* Value at which odPrekida saturates: beyond it the test of line 110 no
\* longer changes.
DebCap == DebounceMs + 2

\* The values odPrekida can have at the end of a delay(ms), part of which
\* the clock steps taken during the delay may have counted already.
NakonDelaySW(od, ms) == od .. Min(od + ms, DebCap)

\* State after attachInterrupt and setupWatchdog (lines 40-45): millis() is
\* 100, lastInterruptTime 0, the LED is on and delay(5000) begins.
InitSW ==
  /\ build = "hw"
  /\ pc = "sw_setup_hold"
  /\ wakeUpFlag = FALSE
  /\ zahtjevZaGasenjeGumbom = FALSE
  /\ zahtjevZaGasenjeIR = FALSE
  /\ alarmAktivan = FALSE
  /\ stanje = FALSE
  /\ sustavPokrenut = FALSE
  /\ zahtjevZaGasenjeSustava = FALSE
  /\ prosloStanjeGumba = HIGH
  /\ elapsed = 0
  /\ animMs = 0
  /\ elapsedIR = 0
  /\ led = HIGH
  /\ buzzer = LOW
  /\ backlight = FALSE
  /\ pir = LOW
  /\ gumb \in {LOW, HIGH}
  /\ irPending = NEMA
  /\ irDecoded = FALSE
  /\ pirRead = "none"
  /\ lastKod = NEMA
  /\ staleWake = FALSE
  /\ wakeUpByButton = FALSE
  /\ wakeUpByWDT = FALSE
  /\ odPrekida = 100
  /\ irOdbijen = FALSE
  /\ millisSad = <<0, 0>>
  /\ prethodno = <<0, 0>>
  /\ lastInterruptTime = <<0, 0>>
  /\ stvarno = 0
  /\ usporedba = "none"
  /\ flag1 = FALSE
  /\ flag2 = FALSE
  /\ led1 = LOW
  /\ led2 = LOW
  /\ tipka1 = HIGH
  /\ tipka2 = HIGH
  /\ neodgovoren1 = FALSE
  /\ neodgovoren2 = FALSE
  /\ PrioMiruje

\* Line 110: if (currentTime - lastInterruptTime > 250).
DebounceProsao(od) == od > DebounceMs

\* Lines 106-114: the button ISR.
swWakeUp ==
  IF DebounceProsao(odPrekida)
  THEN wakeUpByButton' = TRUE /\ odPrekida' = 0
  ELSE UNCHANGED <<wakeUpByButton, odPrekida>>

\* Falling edge of the button: the ISR runs, and a halted processor goes on
\* behind sleep_cpu (sleep_disable, return to line 62).
swGumbFall ==
  /\ gumb = HIGH
  /\ gumb' = LOW
  /\ swWakeUp
  /\ pc' = IF pc = "sw_halted" THEN "sw_line62" ELSE pc
  /\ UNCHANGED <<izvanSW, wakeUpByWDT, led>>

swGumbRise ==
  /\ gumb = LOW
  /\ gumb' = HIGH
  /\ UNCHANGED <<izvanSW, swVars, pc, led>>

\* Lines 119-121: the watchdog interrupt; it also ends a halt.
swWdt ==
  /\ wakeUpByWDT' = TRUE
  /\ pc' = IF pc = "sw_halted" THEN "sw_line62" ELSE pc
  /\ UNCHANGED <<izvanSW, wakeUpByButton, odPrekida, led, gumb>>

\* One millisecond of millis() (timer 0 is stopped in power-down).
swTick ==
  /\ pc # "sw_halted"
  /\ odPrekida < DebCap
  /\ odPrekida' = odPrekida + 1
  /\ UNCHANGED <<izvanSW, wakeUpByButton, wakeUpByWDT, pc, led, gumb>>

\* Lines 47-50: delay(5000) of setup() is over, the LED goes off.
swSetupDone ==
  /\ pc = "sw_setup_hold"
  /\ led' = LOW
  /\ odPrekida' \in NakonDelaySW(odPrekida, 5000)
  /\ pc' = "sw_top"
  /\ UNCHANGED <<izvanSW, wakeUpByButton, wakeUpByWDT, gumb>>

\* Lines 57-58 and 94-97: with no wake flag set enterSleep is called.
swLoop ==
  /\ pc = "sw_top"
  /\ pc' = IF ~wakeUpByButton /\ ~wakeUpByWDT THEN "sw_sleep" ELSE "sw_line62"
  /\ UNCHANGED <<izvanSW, swVars, led, gumb>>

\* Line 98: sleep_cpu halts the processor.
swSleepCpu ==
  /\ pc = "sw_sleep"
  /\ pc' = "sw_halted"
  /\ UNCHANGED <<izvanSW, swVars, led, gumb>>

\* Lines 62-66: the wake-up by button is taken and the LED goes on.
swLine62 ==
  /\ pc = "sw_line62"
  /\ IF wakeUpByButton
     THEN /\ wakeUpByButton' = FALSE
          /\ led' = HIGH
          /\ pc' = "sw_btn_hold"
     ELSE /\ pc' = "sw_line79"
          /\ UNCHANGED <<wakeUpByButton, led>>
  /\ UNCHANGED <<izvanSW, wakeUpByWDT, odPrekida, gumb>>

\* Lines 67-68: delay(5000) is over, the LED goes off.
swBtnHoldDone ==
  /\ pc = "sw_btn_hold"
  /\ led' = LOW
  /\ odPrekida' \in NakonDelaySW(odPrekida, 5000)
  /\ pc' = "sw_release"
  /\ UNCHANGED <<izvanSW, wakeUpByButton, wakeUpByWDT, gumb>>

\* Lines 71-73: one test of the wait for the release of the button.
swRelease ==
  /\ pc = "sw_release"
  /\ IF gumb = LOW
     THEN /\ odPrekida' \in NakonDelaySW(odPrekida, 10)
          /\ UNCHANGED pc
     ELSE /\ pc' = "sw_line79"
          /\ UNCHANGED odPrekida
  /\ UNCHANGED <<izvanSW, wakeUpByButton, wakeUpByWDT, led, gumb>>

\* Lines 79-83: the wake-up by watchdog is taken and the LED goes on.
swLine79 ==
  /\ pc = "sw_line79"
  /\ IF wakeUpByWDT
     THEN /\ wakeUpByWDT' = FALSE
          /\ led' = HIGH
          /\ pc' = "sw_wdt_hold"
     ELSE /\ pc' = "sw_top"
          /\ UNCHANGED <<wakeUpByWDT, led>>
  /\ UNCHANGED <<izvanSW, wakeUpByButton, odPrekida, gumb>>

\* Lines 84-85: delay(1000) is over, the LED goes off and loop() returns.
swWdtHoldDone ==
  /\ pc = "sw_wdt_hold"
  /\ led' = LOW
  /\ odPrekida' \in NakonDelaySW(odPrekida, 1000)
  /\ pc' = "sw_top"
  /\ UNCHANGED <<izvanSW, wakeUpByButton, wakeUpByWDT, gumb>>

MainSW ==
  \/ swSetupDone
  \/ swLoop
  \/ swSleepCpu
  \/ swLine62
  \/ swBtnHoldDone
  \/ swRelease
  \/ swLine79
  \/ swWdtHoldDone

EnvSW ==
  \/ swGumbFall
  \/ swGumbRise
  \/ swWdt
  \/ swTick

NextSW == MainSW \/ EnvSW

SpecSW == InitSW /\ [][NextSW]_vars

----------------------------------------------------------------------------

(* The elapsed-time comparisons on the 32-bit clock: the blink test of the  *)
(* controller (line 695) and the debounce test of the sleep/wake program    *)
(* (line 110), each run against millis() values on both sides of the        *)
(* wrap-around.  An unsigned long is kept as <<high, low>>, two 16-bit      *)
(* halves.                                                                  *)

\* 2^16: an unsigned long has two halves of this size.
Pola == 65536

\* unsigned long + small number, modulo 2^32.
Add32(a, d) ==
  LET lo == a[2] + d
  IN  <<(a[1] + (lo \div Pola)) % Pola, lo % Pola>>

\* A subtraction that gives 0 where the unsigned one would wrap.
Sub32_BezPrelaska(a, b) ==
  IF a[1] < b[1] \/ (a[1] = b[1] /\ a[2] < b[2])
  THEN <<0, 0>>
  ELSE LET posudba == IF a[2] < b[2] THEN 1 ELSE 0
       IN  <<a[1] - b[1] - posudba, (a[2] - b[2] + Pola) % Pola>>

\* unsigned long - unsigned long, modulo 2^32.
Sub32(a, b) ==
  LET posudba == IF a[2] < b[2] THEN 1 ELSE 0
  IN  <<(a[1] - b[1] - posudba + 2 * Pola) % Pola, (a[2] - b[2] + Pola) % Pola>>

\* Comparisons of an unsigned long with a number below 2^16.
Ge32(x, n) == x[1] > 0 \/ x[2] >= n

Gt32(x, n) == x[1] > 0 \/ x[2] > n

\* Line 695: trenutno - prethodno >= interval.
IstekaoInterval32(sad, pret) == Ge32(Sub32(sad, pret), interval)

\* Line 110: currentTime - lastInterruptTime > 250.
DebounceProsao32(sad, zadnji) == Gt32(Sub32(sad, zadnji), DebounceMs)

\* The clock values looked at: this many milliseconds before and after the
\* wrap-around.
Okolina == 400

UOkolini(t) ==
  \/ t[1] = Pola - 1 /\ t[2] >= Pola - Okolina
  \/ t[1] = 0 /\ t[2] < Okolina

\* Milliseconds by which the clock advances between two tests.
Koraci == {1, 50, 249}

\* Value at which stvarno saturates: both tests are past their threshold.
StvarnoCap == interval + 1

\* The timestamp was stored at a clock value shortly before the wrap-around
\* and no time has passed since.
InitWrap ==
  /\ usporedba \in {"blink", "debounce"}
  /\ \E k \in {1, 150, 250, 251, 300, 301, Okolina} :
       millisSad = <<Pola - 1, Pola - k>>
  /\ prethodno = millisSad
  /\ lastInterruptTime = millisSad
  /\ stvarno = 0
  /\ build = "hw"
  /\ pc = "wrap"
  /\ wakeUpFlag = FALSE
  /\ zahtjevZaGasenjeGumbom = FALSE
  /\ zahtjevZaGasenjeIR = FALSE
  /\ alarmAktivan = (usporedba = "blink")
  /\ stanje = FALSE
  /\ sustavPokrenut = (usporedba = "blink")
  /\ zahtjevZaGasenjeSustava = FALSE
  /\ prosloStanjeGumba = HIGH
  /\ elapsed = 0
  /\ animMs = 0
  /\ elapsedIR = 0
  /\ led = LOW
  /\ buzzer = LOW
  /\ backlight = FALSE
  /\ pir = LOW
  /\ gumb = HIGH
  /\ irPending = NEMA
  /\ irDecoded = FALSE
  /\ pirRead = "none"
  /\ lastKod = NEMA
  /\ staleWake = FALSE
  /\ wakeUpByButton = FALSE
  /\ wakeUpByWDT = FALSE
  /\ odPrekida = 0
  /\ irOdbijen = FALSE
  /\ flag1 = FALSE
  /\ flag2 = FALSE
  /\ led1 = LOW
  /\ led2 = LOW
  /\ tipka1 = HIGH
  /\ tipka2 = HIGH
  /\ neodgovoren1 = FALSE
  /\ neodgovoren2 = FALSE
  /\ PrioMiruje

\* What the two tests and the clock leave alone.
izvanWrap == <<build, pc, wakeUpFlag, zahtjevZaGasenjeGumbom, zahtjevZaGasenjeIR,
               alarmAktivan, sustavPokrenut, zahtjevZaGasenjeSustava,
               prosloStanjeGumba, elapsed, animMs, elapsedIR, backlight, pir,
               gumb, irPending, irDecoded, pirRead, lastKod, staleWake,
               wakeUpByWDT, odPrekida, irOdbijen, usporedba, lab01Vars,
               prioVars>>

\* The timer interrupt advances millis().
wrapTick ==
  /\ \E d \in Koraci :
       /\ UOkolini(Add32(millisSad, d))
       /\ millisSad' = Add32(millisSad, d)
       /\ stvarno' = Min(stvarno + d, StvarnoCap)
  /\ UNCHANGED <<izvanWrap, prethodno, lastInterruptTime, stanje, led, buzzer,
                 wakeUpByButton>>

\* Lines 687-709 of an iteration with the alarm active: the blink test and,
\* if it holds, the toggle.
wrapBlink ==
  /\ usporedba = "blink"
  /\ IF IstekaoInterval32(millisSad, prethodno)
     THEN /\ prethodno' = millisSad
          /\ stanje' = ~stanje
          /\ led' = ~stanje
          /\ buzzer' = ~stanje
          /\ stvarno' = 0
     ELSE UNCHANGED <<prethodno, stanje, led, buzzer, stvarno>>
  /\ UNCHANGED <<izvanWrap, millisSad, lastInterruptTime, wakeUpByButton>>

\* Lines 106-114: the button interrupt handler.
wrapWakeUp ==
  /\ usporedba = "debounce"
  /\ IF DebounceProsao32(millisSad, lastInterruptTime)
     THEN /\ wakeUpByButton' = TRUE
          /\ lastInterruptTime' = millisSad
          /\ stvarno' = 0
     ELSE UNCHANGED <<wakeUpByButton, lastInterruptTime, stvarno>>
  /\ UNCHANGED <<izvanWrap, millisSad, prethodno, stanje, led, buzzer>>

NextWrap == wrapTick \/ wrapBlink \/ wrapWakeUp

SpecWrap == InitWrap /\ [][NextWrap]_vars

----------------------------------------------------------------------------

\* The processor keeps executing and the watchdog keeps firing (every 8 s,
\* lines 128-135).  Nothing is assumed of the button.
FairSpecSW == SpecSW /\ WF_vars(MainSW) /\ WF_vars(swWdt)

----------------------------------------------------------------------------

(* The two-button interrupt program (LAB01/sketch.ino): a press of button 1 *)
(* is answered by LED2 for 0.5 s, a press of button 2 by LED2 for 2 s, and  *)
(* a timer interrupt blinks LED1.  The sensor print of lines 75-81 writes   *)
(* to the serial port only and is left out.                                 *)

\* What no step of the two-button program writes.
izvanLab == <<samoAlarm, swVars, wrapVars, prioVars, led, gumb>>

\* State after setup(), lines 29-52.
InitLab ==
  /\ pc = "lab_top"
  /\ flag1 = FALSE
  /\ flag2 = FALSE
  /\ led1 = LOW
  /\ led2 = LOW
  /\ tipka1 = HIGH
  /\ tipka2 = HIGH
  /\ neodgovoren1 = FALSE
  /\ neodgovoren2 = FALSE
  /\ PrioMiruje
  /\ build = "sim"
  /\ wakeUpFlag = FALSE
  /\ zahtjevZaGasenjeGumbom = FALSE
  /\ zahtjevZaGasenjeIR = FALSE
  /\ alarmAktivan = FALSE
  /\ stanje = FALSE
  /\ sustavPokrenut = FALSE
  /\ zahtjevZaGasenjeSustava = FALSE
  /\ prosloStanjeGumba = HIGH
  /\ elapsed = 0
  /\ animMs = 0
  /\ elapsedIR = 0
  /\ led = LOW
  /\ buzzer = LOW
  /\ backlight = FALSE
  /\ pir = LOW
  /\ gumb = HIGH
  /\ irPending = NEMA
  /\ irDecoded = FALSE
  /\ pirRead = "none"
  /\ lastKod = NEMA
  /\ staleWake = FALSE
  /\ wakeUpByButton = FALSE
  /\ wakeUpByWDT = FALSE
  /\ odPrekida = 0
  /\ irOdbijen = FALSE
  /\ millisSad = <<0, 0>>
  /\ prethodno = <<0, 0>>
  /\ lastInterruptTime = <<0, 0>>
  /\ stvarno = 0
  /\ usporedba = "none"

\* Lines 15-17 and 39: falling edge of button 1 runs ISR_Button1.
labPress1 ==
  /\ tipka1 = HIGH
  /\ tipka1' = LOW
  /\ flag1' = TRUE
  /\ neodgovoren1' = TRUE
  /\ UNCHANGED <<izvanLab, pc, flag2, led1, led2, tipka2, neodgovoren2>>

labRelease1 ==
  /\ tipka1 = LOW
  /\ tipka1' = HIGH
  /\ UNCHANGED <<izvanLab, pc, flag1, flag2, led1, led2, tipka2, neodgovoren1,
                 neodgovoren2>>

\* Lines 20-22 and 40: falling edge of button 2 runs ISR_Button2.
labPress2 ==
  /\ tipka2 = HIGH
  /\ tipka2' = LOW
  /\ flag2' = TRUE
  /\ neodgovoren2' = TRUE
  /\ UNCHANGED <<izvanLab, pc, flag1, led1, led2, tipka1, neodgovoren1>>

labRelease2 ==
  /\ tipka2 = LOW
  /\ tipka2' = HIGH
  /\ UNCHANGED <<izvanLab, pc, flag1, flag2, led1, led2, tipka1, neodgovoren1,
                 neodgovoren2>>

\* Lines 25-27: the timer interrupt toggles LED1.
labTimer1 ==
  /\ led1' = ~led1
  /\ UNCHANGED <<izvanLab, pc, flag1, flag2, led2, tipka1, tipka2, neodgovoren1,
                 neodgovoren2>>

\* Lines 58-61: flag1 is read; if set, LED2 goes on and delay(500) begins.
labLine58 ==
  /\ pc = "lab_top"
  /\ IF flag1
     THEN /\ led2' = HIGH
          /\ neodgovoren1' = FALSE
          /\ pc' = "lab_hold1"
     ELSE /\ pc' = "lab_line66"
          /\ UNCHANGED <<led2, neodgovoren1>>
  /\ UNCHANGED <<izvanLab, flag1, flag2, led1, tipka1, tipka2, neodgovoren2>>

\* Line 63: flag1 = false, after the delay.
KrajOdgovora1 == flag1' = FALSE

\* Lines 61-63: delay(500) is over, LED2 goes off and flag1 is cleared.
labHold1Done ==
  /\ pc = "lab_hold1"
  /\ led2' = LOW
  /\ KrajOdgovora1
  /\ pc' = "lab_line66"
  /\ UNCHANGED <<izvanLab, flag2, led1, tipka1, tipka2, neodgovoren1,
                 neodgovoren2>>

\* Lines 66-69: flag2 is read; if set, LED2 goes on and delay(2000) begins.
\* Otherwise loop() returns after the sensor print.
labLine66 ==
  /\ pc = "lab_line66"
  /\ IF flag2
     THEN /\ led2' = HIGH
          /\ neodgovoren2' = FALSE
          /\ pc' = "lab_hold2"
     ELSE /\ pc' = "lab_top"
          /\ UNCHANGED <<led2, neodgovoren2>>
  /\ UNCHANGED <<izvanLab, flag1, flag2, led1, tipka1, tipka2, neodgovoren1>>

\* Lines 69-71: delay(2000) is over, LED2 goes off, flag2 is cleared, and
\* loop() returns after the sensor print.
labHold2Done ==
  /\ pc = "lab_hold2"
  /\ led2' = LOW
  /\ flag2' = FALSE
  /\ pc' = "lab_top"
  /\ UNCHANGED <<izvanLab, flag1, led1, tipka1, tipka2, neodgovoren1,
                 neodgovoren2>>

MainLab ==
  \/ labLine58
  \/ labHold1Done
  \/ labLine66
  \/ labHold2Done

EnvLab ==
  \/ labPress1
  \/ labRelease1
  \/ labPress2
  \/ labRelease2
  \/ labTimer1

NextLab == MainLab \/ EnvLab

SpecLab == InitLab /\ [][NextLab]_vars

----------------------------------------------------------------------------

(* The priority-button program (unnamed/part_000, lines 134-305 and its     *)
(* variant with named durations, lines 402-563): a press of a button lights *)
(* the LED of its priority, and loop() switches the LED off when its hold   *)
(* time has passed.  The distance part of loop() (lines 259-304, 513-562)   *)
(* writes the distance LEDs and their timestamps only; of it the model      *)
(* keeps the clearing of timerFlag.                                         *)

\* What no step of the priority-button program writes.
izvanPrio == <<samoAlarm, swVars, wrapVars, lab01Vars, pc, led, gumb>>

\* Lines 391-395 (3000, 2000, 1000 at lines 244-254): hold times in ms.
Trajanje == [high |-> 3000, med |-> 2000, low |-> 1000]

\* Resolution of the clock of this program in milliseconds.
PrioTickMs == 1000

\* Ticks after which the hold time of priority p has certainly passed.
OdCap(p) == (Trajanje[p] + PrioTickMs - 1) \div PrioTickMs

\* State after setup(), lines 134-166: millis() still reads 0.
InitPrio ==
  /\ PrioMiruje
  /\ pc = "prio"
  /\ build = "hw"
  /\ wakeUpFlag = FALSE
  /\ zahtjevZaGasenjeGumbom = FALSE
  /\ zahtjevZaGasenjeIR = FALSE
  /\ alarmAktivan = FALSE
  /\ stanje = FALSE
  /\ sustavPokrenut = FALSE
  /\ zahtjevZaGasenjeSustava = FALSE
  /\ prosloStanjeGumba = HIGH
  /\ elapsed = 0
  /\ animMs = 0
  /\ elapsedIR = 0
  /\ led = LOW
  /\ buzzer = LOW
  /\ backlight = FALSE
  /\ pir = LOW
  /\ gumb = HIGH
  /\ irPending = NEMA
  /\ irDecoded = FALSE
  /\ pirRead = "none"
  /\ lastKod = NEMA
  /\ staleWake = FALSE
  /\ wakeUpByButton = FALSE
  /\ wakeUpByWDT = FALSE
  /\ odPrekida = 0
  /\ irOdbijen = FALSE
  /\ millisSad = <<0, 0>>
  /\ prethodno = <<0, 0>>
  /\ lastInterruptTime = <<0, 0>>
  /\ stvarno = 0
  /\ usporedba = "none"
  /\ flag1 = FALSE
  /\ flag2 = FALSE
  /\ led1 = LOW
  /\ led2 = LOW
  /\ tipka1 = HIGH
  /\ tipka2 = HIGH
  /\ neodgovoren1 = FALSE
  /\ neodgovoren2 = FALSE

\* Lines 172-190: a falling edge of a button runs its handler (for BTN_2
\* the pin-change handler, which finds the pin LOW).
prioPress ==
  /\ \E p \in Prioriteti :
       /\ prioTipka[p] = HIGH
       /\ prioTipka' = [prioTipka EXCEPT ![p] = LOW]
       /\ btnPressed' = [btnPressed EXCEPT ![p] = TRUE]
  /\ UNCHANGED <<izvanPrio, prioLed, ledOnTimeNula, odPaljenja, timerFlag,
                 prioSat>>

\* A rising edge: no handler for BTN_0 and BTN_1, and the pin-change handler
\* of BTN_2 finds the pin HIGH.
prioRelease ==
  /\ \E p \in Prioriteti :
       /\ prioTipka[p] = LOW
       /\ prioTipka' = [prioTipka EXCEPT ![p] = HIGH]
  /\ UNCHANGED <<izvanPrio, btnPressed, prioLed, ledOnTimeNula, odPaljenja,
                 timerFlag, prioSat>>

\* Lines 195-197: the timer interrupt.
prioTimer ==
  /\ ~timerFlag
  /\ timerFlag' = TRUE
  /\ UNCHANGED <<izvanPrio, btnPressed, prioLed, ledOnTimeNula, odPaljenja,
                 prioTipka, prioSat>>

\* millis() advances; the time since the on-time of a lit LED grows.
prioTick ==
  /\ prioSat = "nula" \/ \E p \in Prioriteti :
                           prioLed[p] = HIGH /\ odPaljenja[p] < OdCap(p)
  /\ prioSat' = "poz"
  /\ odPaljenja' = [p \in Prioriteti |->
                      IF prioLed[p] = HIGH
                      THEN Min(odPaljenja[p] + 1, OdCap(p))
                      ELSE odPaljenja[p]]
  /\ UNCHANGED <<izvanPrio, btnPressed, prioLed, ledOnTimeNula, prioTipka,
                 timerFlag>>

\* Lines 244, 249, 254 (510, 515, 520), first half of the test: the hold
\* time has passed since the on-time was written.
ProsloVrijeme(p) == odPaljenja[p] * PrioTickMs >= Trajanje[p]

\* Lines 244, 249, 254 (510, 515, 520): the hold time has passed and the
\* on-time is not 0.
Istek(p) == ProsloVrijeme(p) /\ ~ledOnTimeNula[p]

\* Lines 222-305 (488-563): one iteration of loop().  A handled press stores
\* currentTime, which is 0 while millis() reads 0; the timeout of a press
\* handled in this iteration is not due.
prioLoop ==
  /\ btnPressed' = [p \in Prioriteti |-> FALSE]
  /\ prioLed' = [p \in Prioriteti |->
                   IF btnPressed[p] THEN HIGH
                   ELSE IF Istek(p) THEN LOW
                   ELSE prioLed[p]]
  /\ ledOnTimeNula' = [p \in Prioriteti |->
                         IF btnPressed[p] THEN prioSat = "nula"
                         ELSE IF Istek(p) THEN TRUE
                         ELSE ledOnTimeNula[p]]
  /\ odPaljenja' = [p \in Prioriteti |->
                      IF btnPressed[p] \/ Istek(p) THEN 0 ELSE odPaljenja[p]]
  /\ timerFlag' = FALSE
  /\ UNCHANGED <<izvanPrio, prioTipka, prioSat>>

NextPrio == prioLoop \/ prioPress \/ prioRelease \/ prioTimer \/ prioTick

SpecPrio == InitPrio /\ [][NextPrio]_vars

\* The processor keeps executing loop() and the clock keeps running.
\* Nothing is assumed of the buttons.
FairSpecPrio == SpecPrio /\ WF_vars(prioLoop) /\ WF_vars(prioTick)

----------------------------------------------------------------------------

\* The steps of the program (main context).
Main ==
  \/ loopShutdown
  \/ loopShutdownDone
  \/ loopPoll
  \/ loopStart
  \/ animOn
  \/ animOff
  \/ startMsg1
  \/ startMsg2
  \/ startDone
  \/ ugasiAlarmDone
  \/ resetStanjeHold
  \/ resetStanjeWait
  \/ enterSleep
  \/ enterSleepPoll

\* The steps of the environment, the PIR interrupt among them.
Env ==
  \/ PirRise
  \/ PirFall
  \/ GumbChange
  \/ IrPress
  \/ Tick

Next == Main \/ Env

Spec == Init /\ [][Next]_vars

\* The processor keeps executing: a program step that stays possible is
\* taken.  Nothing is assumed of the environment.
FairSpec == Spec /\ WF_vars(Main)

----------------------------------------------------------------------------
(* Properties *)

\* C1: an iteration of the started system that reads the motion level HIGH
\* while the alarm is not active ends with the alarm active, or at least
\* with the wake latched in wakeUpFlag for the activation at lines 664-675
\* (the read that ends the low-power wait).
C1_ArmedMotionActivates ==
  (AtLoopTop /\ sustavPokrenut /\ pirRead = "HIGH") => (alarmAktivan \/ wakeUpFlag)

\* C2: the silence sub-sequence (ugasiAlarm, resetStanje and its settle
\* wait) is never entered or under way while a shutdown request that was
\* decoded in the same iteration is waiting to be handled.
C2_ShutdownBeforeSilence ==
  pc \in {"ugasi_hold", "reset_hold", "reset_wait"} => ~zahtjevZaGasenjeSustava

\* The start-up sequence of the PLAY branch, lines 581-622.
StartSequence == {"anim_on", "anim_off", "start_msg1", "start_msg2"}

\* C3: a RemoteStop received while Stopped leaves no shutdown request
\* behind: while a RemoteStart is starting the system no request is pending
\* (none can be decoded during the start-up sequence), so the started
\* system is shut down only by a RemoteStop received after that start.
C3_NoPendingStopAtStart ==
  pc \in StartSequence => ~zahtjevZaGasenjeSustava

\* C4: outside the start-up animation LED and buzzer are LOW whenever the
\* alarm is not active, at every loop boundary in particular.
C4_OutputsOnlyWhileAlarm ==
  (~alarmAktivan /\ pc \notin StartupAnimation) => (led = LOW /\ buzzer = LOW)

\* C4 witness: a loop boundary with the alarm inactive after an alarm that
\* ended in the ON phase of the blink.
C4_Witness ==
  AtLoopTop /\ ~alarmAktivan /\ stanje = TRUE /\ led = LOW /\ buzzer = LOW

\* C5: the alarm is never activated by a rising edge that was latched into
\* wakeUpFlag before resetStanje returned (while the alarm was active or
\* during the reset stalls) with no motion rising since.
C5_NoStaleRetrigger ==
  [][(~alarmAktivan /\ alarmAktivan') => ~staleWake]_vars

\* C6: in the interrupt-driven build the processor is never halted in
\* power-down, where only a motion interrupt ends the halt, while a
\* RemoteStop is decoded and unhandled or held by the receiver.
C6_NoHaltOverStop ==
  pc = "halted" => (~zahtjevZaGasenjeSustava /\ irPending # IR_KOD_GASENJE)

\* C7: in the cooperative-poll build a shutdown request raised during the
\* wait leads to Stopped whatever the motion level does, and when the
\* wait returns with the request set the system is started, so that the
\* next iteration handles the shutdown.
C7_PollWaitHonoursStop ==
  /\ [](pc = "ret_sleep" /\ zahtjevZaGasenjeSustava => sustavPokrenut)
  /\ ((build = "sim" /\ pc = "sim_wait" /\ zahtjevZaGasenjeSustava)
        ~> (pc = "ret_shutdown" /\ ~sustavPokrenut /\ ~alarmAktivan))

\* C7 witness: the poll wait with the shutdown request set and no motion.
C7_Witness ==
  build = "sim" /\ pc = "sim_wait" /\ zahtjevZaGasenjeSustava /\ pir = LOW

\* C8: in the interrupt-driven build the processor is never halted in
\* power-down while wakeUpFlag is set and motion is present.
C8_NoLostWake ==
  ~(pc = "halted" /\ wakeUpFlag /\ pir = HIGH)

\* C9: the step that completes the shutdown handling leaves the system
\* Stopped, every event flag cleared, LED and buzzer LOW and the backlight
\* off.
C9_ShutdownClearsAll ==
  [][(pc = "shutdown_hold" /\ pc' = "ret_shutdown") =>
       (/\ ~sustavPokrenut' /\ ~alarmAktivan'
        /\ ~wakeUpFlag' /\ ~zahtjevZaGasenjeSustava'
        /\ ~zahtjevZaGasenjeGumbom' /\ ~zahtjevZaGasenjeIR'
        /\ led' = LOW /\ buzzer' = LOW /\ ~backlight')]_vars

\* C9 witness: the shutdown of an alarm whose blink was in its ON phase has
\* just completed.
C9_Witness ==
  pc = "ret_shutdown" /\ ~sustavPokrenut /\ stanje = TRUE /\ led = LOW

\* C10: LED and buzzer are LOW throughout the 3000 ms hold of the message
\* "Sustav ugasen".
C10_OutputsLowDuringHold ==
  pc = "shutdown_hold" => (led = LOW /\ buzzer = LOW)

\* C11: an iteration of loop() that decodes the start code while the system
\* is started does to sustavPokrenut, alarmAktivan, wakeUpFlag, the request
\* flags, the blink phase, LED, buzzer and backlight exactly what the same
\* iteration does when no frame was received: the decode itself changes
\* nothing, however often it is repeated.
C11_StartWhileStartedNoOp ==
  [][(/\ AtLoopTop /\ sustavPokrenut /\ ~zahtjevZaGasenjeSustava
      /\ irPending = IR_KOD_PALJENJE
      /\ (pc' # pc \/ irPending' # irPending)) => Iteracija(NEMA)]_vars

\* C11 witness: with the poll build, an iteration has decoded the start code
\* while the alarm was sounding, and the alarm goes on.
C11_Witness ==
  /\ build = "sim" /\ lastKod = IR_KOD_PALJENJE
  /\ pc = "ret_alarm" /\ alarmAktivan /\ sustavPokrenut

C13_EarlySilenceKeepsAlarm ==
  [][(~alarmAktivan /\ alarmAktivan') => pc' # "ugasi_hold"]_vars

\* C14: alarmAktivan rises only in a step that consumes a set wakeUpFlag
\* while the system is started, and falls only after an accepted
\* deactivation request or in the shutdown handling.
C14_AlarmRiseAndFall ==
  /\ [][(~alarmAktivan /\ alarmAktivan') =>
          (wakeUpFlag /\ ~wakeUpFlag' /\ sustavPokrenut /\ sustavPokrenut')]_vars
  /\ [][(alarmAktivan /\ ~alarmAktivan') =>
          (\/ pc = "ugasi_hold" /\ (zahtjevZaGasenjeGumbom \/ zahtjevZaGasenjeIR)
           \/ pc = "shutdown_hold")]_vars

\* C14 witness: the alarm is active and has stayed so over an iteration that
\* neither silenced nor shut down.
C14_Witness ==
  pc = "ret_alarm" /\ alarmAktivan /\ ~wakeUpFlag /\ stanje = TRUE /\ led = HIGH

\* C15: the program enters loop() for the first time Stopped with no flag
\* set; a start command taken in Stopped begins the start-up sequence, the
\* sequence comes to its end, and at its end the system is started, the
\* alarm inactive, LED and buzzer LOW and the backlight off.
C15_BootStoppedStartArmed ==
  /\ [](Init =>
          (/\ ~sustavPokrenut /\ ~alarmAktivan /\ ~wakeUpFlag
           /\ ~zahtjevZaGasenjeSustava /\ ~zahtjevZaGasenjeGumbom
           /\ ~zahtjevZaGasenjeIR))
  /\ [][(~sustavPokrenut /\ sustavPokrenut') => pc' = "anim_on"]_vars
  /\ (pc = "anim_on") ~> (pc = "start_done")
  /\ [](pc = "start_done" =>
          (/\ sustavPokrenut /\ ~alarmAktivan
           /\ led = LOW /\ buzzer = LOW /\ ~backlight))

\* C15 witness: the start-up sequence has just finished.
C15_Witness ==
  pc = "start_done" /\ sustavPokrenut /\ lastKod = IR_KOD_PALJENJE

\* C16: when resetStanje returns, the last read of the motion level was LOW,
\* the alarm is inactive, LED and buzzer are LOW and the backlight is off.
C16_ResetReturnsSettled ==
  pc = "ret_reset" =>
    (/\ pirRead = "LOW" /\ ~alarmAktivan
     /\ led = LOW /\ buzzer = LOW /\ ~backlight)

\* C16 witness: resetStanje has returned after a settle wait that ran while
\* the interrupt latched an edge.
C16_Witness ==
  pc = "ret_reset" /\ pirRead = "LOW" /\ staleWake

\* C17: the simulated sleep wait is left only by a poll that finds the
\* motion level HIGH or the shutdown request set, and that poll sets
\* wakeUpFlag and returns; a poll that stays in the wait found the level LOW
\* and the request clear.
C17_PollWaitExit ==
  /\ [][(pc = "sim_wait" /\ pc' # "sim_wait") =>
          (/\ pir = HIGH \/ zahtjevZaGasenjeSustava
           /\ pc' = "ret_sleep" /\ wakeUpFlag')]_vars
  /\ [][(/\ pc = "sim_wait" /\ pc' = "sim_wait"
         /\ \/ pirRead' # pirRead
            \/ irPending # NEMA /\ irPending' = NEMA
            \/ zahtjevZaGasenjeSustava' # zahtjevZaGasenjeSustava) =>
          (pir = LOW /\ ~zahtjevZaGasenjeSustava)]_vars

\* C17 witness: the wait has returned on the shutdown request alone, the
\* motion level having been read LOW.
C17_Witness ==
  /\ build = "sim" /\ pc = "ret_sleep" /\ wakeUpFlag
  /\ pirRead = "LOW" /\ pir = LOW /\ zahtjevZaGasenjeSustava

\* C18: the alarm is active only while the system is started.
C18_AlarmOnlyWhileStarted ==
  alarmAktivan => sustavPokrenut

\* C18 witness: a shutdown is being handled while the alarm is active.
C18_Witness ==
  pc = "shutdown_hold" /\ alarmAktivan /\ sustavPokrenut /\ led = HIGH

\* C19: a rising edge of the motion level, the only event that runs the
\* interrupt handler, leaves sustavPokrenut, alarmAktivan, the request
\* flags, the blink phase, LED, buzzer and backlight as they were.
C19_IsrFrame ==
  [][(pir = LOW /\ pir' = HIGH) =>
       UNCHANGED <<sustavPokrenut, alarmAktivan, zahtjevZaGasenjeGumbom,
                   zahtjevZaGasenjeIR, zahtjevZaGasenjeSustava, stanje,
                   led, buzzer, backlight>>]_vars

\* C19 witness: the interrupt has set wakeUpFlag while the alarm was being
\* silenced.
C19_Witness ==
  build = "hw" /\ pc = "ugasi_hold" /\ wakeUpFlag /\ pir = HIGH /\ alarmAktivan

\* C20: a decoded frame is held without resume only inside the start branch,
\* which ends in resume: at every point where decode is called (the top of
\* loop() and the simulated sleep wait) the frame decoded before has been
\* resumed.
C20_ResumeBeforeNextDecode ==
  /\ irDecoded => pc \in (StartSequence \cup {"start_done"})
  /\ (AtLoopTop \/ pc = "sim_wait") => ~irDecoded

\* C20 witness: the iteration that decoded the start code has resumed the
\* receiver at its end and the loop is at its top again.
C20_Witness ==
  /\ AtLoopTop /\ lastKod = IR_KOD_PALJENJE /\ ~irDecoded
  /\ irPending = NEMA /\ pc = "ret_idle"

\* C21: an iteration of loop() that decodes a code which is none of the
\* three known ones changes every variable exactly as the same iteration
\* does when no frame was received, and ends as that iteration ends.
C21_UnknownCodeIgnored ==
  [][(/\ AtLoopTop
      /\ ~(zahtjevZaGasenjeSustava /\ sustavPokrenut)
      /\ irPending = IR_KOD_NEPOZNAT
      /\ (pc' # pc \/ irPending' # irPending)) => Iteracija(NEMA)]_vars

\* C21 witness: an iteration has decoded an unknown code while the alarm was
\* sounding with a button press at hand; the press alone raised its request.
C21_Witness ==
  /\ lastKod = IR_KOD_NEPOZNAT /\ pc = "ugasi_hold" /\ alarmAktivan
  /\ zahtjevZaGasenjeGumbom /\ ~zahtjevZaGasenjeIR

\* C22: in the sleep/wake program a falling edge of the button is accepted
\* (wakeUpByButton set, the time of the last accepted edge updated) if at
\* least 250 ms have passed since the last accepted edge, and changes
\* nothing otherwise.
C22_DebounceWindow ==
  [][(gumb = HIGH /\ gumb' = LOW) =>
       IF odPrekida >= 250
       THEN wakeUpByButton' /\ odPrekida' = 0
       ELSE UNCHANGED <<wakeUpByButton, odPrekida>>]_vars

\* C23: from the top of loop() with the shutdown request pending and the
\* system started, the program goes into the shutdown handling and through
\* it to Stopped, and on that way the button is not read, no frame is
\* decoded, the blink phase and the silence requests are not touched, LED
\* and buzzer are written LOW at most, and no wait for motion is entered.
C23_ShutdownFirst ==
  /\ [][((AtLoopTop /\ zahtjevZaGasenjeSustava /\ sustavPokrenut)
          \/ pc = "shutdown_hold") =>
          (/\ pc' \in {pc, "shutdown_hold", "ret_shutdown"}
           /\ prosloStanjeGumba' = prosloStanjeGumba
           /\ irPending' = irPending \/ irPending = NEMA
           /\ UNCHANGED <<stanje, zahtjevZaGasenjeGumbom, zahtjevZaGasenjeIR>>
           /\ \/ UNCHANGED <<led, buzzer>>
              \/ pc' = "ret_shutdown" /\ led' = LOW /\ buzzer' = LOW)]_vars
  /\ (AtLoopTop /\ zahtjevZaGasenjeSustava /\ sustavPokrenut)
       ~> (pc = "ret_shutdown" /\ ~sustavPokrenut)

\* C23 witness: the shutdown has been handled while a button press and a
\* received frame were waiting; neither has been taken.
C23_Witness ==
  /\ pc = "ret_shutdown" /\ ~sustavPokrenut
  /\ gumb = LOW /\ prosloStanjeGumba = HIGH /\ irPending = IR_KOD_GASENJE_ALARMA

\* C24: the settle wait after an alarm is left only by a poll that reads the
\* motion level LOW; while it lasts no frame is decoded and
\* zahtjevZaGasenjeSustava and sustavPokrenut stay as they are; and if the
\* level stays HIGH for ever the program stays in the wait for ever.
C24_SettleWaitOnlyPirEnds ==
  /\ [][(pc = "reset_wait" /\ pc' # "reset_wait") =>
          (pir = LOW /\ pc' = "ret_reset")]_vars
  /\ [][pc = "reset_wait" =>
          (/\ UNCHANGED <<zahtjevZaGasenjeSustava, sustavPokrenut>>
           /\ irPending' = irPending \/ irPending = NEMA)]_vars
  /\ []((pc = "reset_wait" /\ [](pir = HIGH)) => [](pc = "reset_wait"))

\* C24 witness: a stop command has been received during the settle wait and
\* is still undecoded after a poll that read the level HIGH.
C24_Witness ==
  /\ pc = "reset_wait" /\ pirRead = "HIGH" /\ pir = HIGH
  /\ irPending = IR_KOD_GASENJE /\ ~zahtjevZaGasenjeSustava /\ sustavPokrenut

\* C25: the blink phase changes only in an iteration that runs with the
\* alarm active and finds at least the blink period elapsed since the last
\* toggle; that iteration restarts the period and writes the new phase to
\* both LED and buzzer (a silence in the same iteration then writes both
\* LOW); LED and buzzer are equal in every state.
C25_BlinkTiming ==
  /\ [](led = buzzer)
  /\ [][stanje' # stanje =>
          (/\ elapsed * TickMs >= interval
           /\ alarmAktivan'
           /\ elapsed' = 0
           /\ pc' = "ret_alarm" => (led' = stanje' /\ buzzer' = stanje')
           /\ pc' # "ret_alarm" => (pc' = "ugasi_hold" /\ led' = LOW /\ buzzer' = LOW))]_vars

\* C25 witness: the alarm has toggled to ON and back to OFF and goes on.
C25_Witness ==
  /\ pc = "ret_alarm" /\ alarmAktivan /\ elapsed = 0
  /\ stanje = FALSE /\ led = LOW /\ buzzer = LOW

\* C26: the step that activates the alarm finds wakeUpFlag set and leaves it
\* clear, and wakeUpFlag is cleared by nothing but an activation, the start
\* branch and the shutdown handling: a setting of the flag is used up by the
\* one activation it causes.
C26_WakeConsumedOnce ==
  /\ [][(~alarmAktivan /\ alarmAktivan') => (wakeUpFlag /\ ~wakeUpFlag')]_vars
  /\ [][(wakeUpFlag /\ ~wakeUpFlag') =>
          (\/ ~alarmAktivan /\ alarmAktivan'
           \/ pc' = "anim_on"
           \/ pc' = "ret_shutdown")]_vars

\* C26 witness: in the interrupt build the alarm has been activated by a
\* latched edge; the flag is clear while the motion level is still HIGH.
C26_Witness ==
  /\ build = "hw" /\ pc = "ret_alarm" /\ alarmAktivan
  /\ ~wakeUpFlag /\ pir = HIGH /\ lastKod = NEMA

\* An iteration of loop() that gets past the shutdown test and reads the
\* button (the steps of the environment change pir, gumb, the clock or the
\* received frame).
CitaGumb ==
  /\ AtLoopTop /\ ~GasenjeNaRedu
  /\ UNCHANGED <<pir, gumb>>
  /\ elapsed' <= elapsed
  /\ irPending' = NEMA \/ pc' = "anim_on"

\* C27: every iteration that reads the button stores the level it read,
\* whether or not a press is accepted; the button request is raised only in
\* an iteration that read LOW after the stored level HIGH, and with the
\* alarm active such an iteration does raise it and silences the alarm; so
\* a button held LOW raises no second request.
C27_ButtonEdge ==
  /\ [][CitaGumb => prosloStanjeGumba' = gumb]_vars
  /\ [][(zahtjevZaGasenjeGumbom' /\ ~zahtjevZaGasenjeGumbom) =>
          (CitaGumb /\ prosloStanjeGumba = HIGH /\ gumb = LOW)]_vars
  /\ [][(CitaGumb /\ alarmAktivan /\ prosloStanjeGumba = HIGH /\ gumb = LOW) =>
          (zahtjevZaGasenjeGumbom' /\ pc' = "ugasi_hold")]_vars
  /\ [][(CitaGumb /\ prosloStanjeGumba = LOW) =>
          zahtjevZaGasenjeGumbom' = zahtjevZaGasenjeGumbom]_vars

\* C27 witness: the alarm blinks on while the button, pressed before the
\* activation, is held LOW over the polls.
C27_Witness ==
  /\ pc = "ret_alarm" /\ alarmAktivan /\ gumb = LOW /\ prosloStanjeGumba = LOW
  /\ ~zahtjevZaGasenjeGumbom /\ stanje = FALSE /\ elapsed = 0 /\ lastKod = NEMA

C29_StopEndsWaitWithoutAlarm ==
  /\ []((pc = "ret_sleep" /\ zahtjevZaGasenjeSustava) =>
          (/\ sustavPokrenut /\ wakeUpFlag
           /\ ~alarmAktivan /\ led = LOW /\ buzzer = LOW))
  /\ [][(pc = "ret_sleep" /\ zahtjevZaGasenjeSustava /\ pc' # pc) =>
          pc' = "shutdown_hold"]_vars
  /\ [][((pc = "ret_sleep" /\ zahtjevZaGasenjeSustava)
           \/ (pc = "shutdown_hold" /\ ~alarmAktivan)) =>
          (~alarmAktivan' /\ led' = LOW /\ buzzer' = LOW)]_vars
  /\ [][(pc = "shutdown_hold" /\ pc' # pc) =>
          (pc' = "ret_shutdown" /\ ~sustavPokrenut' /\ ~wakeUpFlag')]_vars
  /\ (pc = "ret_sleep" /\ zahtjevZaGasenjeSustava) ~> (pc = "ret_shutdown")

\* C29 witness: with the poll build, the shutdown message is shown while
\* wakeUpFlag is still set from the exit of the wait.
C29_Witness ==
  /\ build = "sim" /\ pc = "shutdown_hold" /\ wakeUpFlag
  /\ ~alarmAktivan /\ led = LOW /\ pir = LOW

\* C30: the low-power wait is entered only from Armed with the motion level
\* read LOW in that iteration.  The step that reaches the delay(200) before
\* enterSleep starts with the system started and the alarm inactive and
\* reads pirPin LOW; from there up to the call of enterSleep, and all through
\* the wait, the system is started, the alarm is inactive, LED and buzzer are
\* LOW and the backlight is off; enterSleep is called from nowhere else.
C30_SleepOnlyFromArmed ==
  /\ [][(pc' = "sleep_delay" /\ pc # "sleep_delay") =>
          (/\ sustavPokrenut /\ ~alarmAktivan /\ ~wakeUpFlag
           /\ pir = LOW /\ pirRead' = "LOW")]_vars
  /\ [](pc = "sleep_delay" =>
          (/\ pirRead = "LOW"
           /\ sustavPokrenut /\ ~alarmAktivan
           /\ led = LOW /\ buzzer = LOW /\ ~backlight))
  /\ [](pc \in {"halted", "sim_wait"} =>
          (/\ sustavPokrenut /\ ~alarmAktivan
           /\ led = LOW /\ buzzer = LOW /\ ~backlight))
  /\ [][(pc' \in {"halted", "sim_wait"} /\ pc' # pc) => pc = "sleep_delay"]_vars

\* The wait was entered after an alarm had been silenced and the motion level
\* had come back to LOW.
C30_Witness ==
  /\ pc \in {"halted", "sim_wait"}
  /\ sustavPokrenut /\ ~alarmAktivan
  /\ led = LOW /\ buzzer = LOW /\ ~backlight
  /\ pirRead = "LOW" /\ stanje

\* C31: deactivation requests never survive a loop iteration.  At the start
\* of every iteration both requests are false; a step raises a request only
\* while the alarm is active, and that same iteration goes on to ugasiAlarm,
\* whose end clears both requests before the iteration returns.
C31_RequestsNeverSurvive ==
  /\ [](AtLoopTop => (~zahtjevZaGasenjeGumbom /\ ~zahtjevZaGasenjeIR))
  /\ [][((zahtjevZaGasenjeGumbom' /\ ~zahtjevZaGasenjeGumbom)
          \/ (zahtjevZaGasenjeIR' /\ ~zahtjevZaGasenjeIR)) =>
          (alarmAktivan /\ pc' = "ugasi_hold")]_vars
  /\ []((zahtjevZaGasenjeGumbom \/ zahtjevZaGasenjeIR) => pc = "ugasi_hold")
  /\ [][(pc = "ugasi_hold" /\ pc' # pc) =>
          (~zahtjevZaGasenjeGumbom' /\ ~zahtjevZaGasenjeIR')]_vars

\* Both requests were raised in one iteration and ugasiAlarm is under way.
C31_Witness ==
  /\ pc = "ugasi_hold"
  /\ zahtjevZaGasenjeGumbom /\ zahtjevZaGasenjeIR
  /\ alarmAktivan

\* C32: the blink phase stanje always equals the level last written to the
\* LED and the buzzer (outside the start-up animation, which drives the
\* outputs by itself), so the first toggle of an alarm, made with the outputs
\* LOW, drives them HIGH.
C32_StanjeEqualsOutputs ==
  /\ [](pc \notin StartupAnimation => (led = stanje /\ buzzer = stanje))
  /\ [][(alarmAktivan' /\ stanje' # stanje /\ led = LOW /\ pc' = "ret_alarm") =>
          (led' = HIGH /\ buzzer' = HIGH)]_vars

\* An iteration of AlarmSystem.ino decodes the frame the receiver holds.
asDekodira == AtLoopTop /\ irPending # NEMA /\ irPending' = NEMA

\* C33: AlarmSystem.ino accepts a silence code only if more than 500 ms have
\* passed since the last accepted one.  A decoded silence code raises the
\* request and restarts the window exactly when the window has passed, and
\* otherwise changes neither; the request is raised and the window restarted
\* by nothing else, so the codes arriving within one window give at most one
\* accepted request; the decoder is resumed whether or not the code was
\* accepted.
C33_RepeatSuppression ==
  /\ [][asDekodira =>
          IF JeKodGasenja(irPending) /\ elapsedIR * TickMs > IRRazmak
          THEN zahtjevZaGasenjeIR' /\ elapsedIR' = 0 /\ ~irOdbijen'
          ELSE /\ zahtjevZaGasenjeIR' = zahtjevZaGasenjeIR
               /\ elapsedIR' = elapsedIR
               /\ irOdbijen' = JeKodGasenja(irPending)]_vars
  /\ [][((zahtjevZaGasenjeIR' /\ ~zahtjevZaGasenjeIR) \/ elapsedIR' < elapsedIR) =>
          (/\ asDekodira
           /\ JeKodGasenja(irPending)
           /\ elapsedIR * TickMs > IRRazmak)]_vars
  /\ [][(AtLoopTop /\ irPending # NEMA /\ lastKod' # lastKod) =>
          irPending' = NEMA]_vars
  /\ [](~irDecoded)

\* A silence code was decoded within the window of an accepted one and was
\* not accepted; the receiver has been resumed.
C33_Witness ==
  /\ irOdbijen
  /\ JeKodGasenja(lastKod)
  /\ elapsedIR > 0 /\ elapsedIR * TickMs <= IRRazmak
  /\ irPending = NEMA /\ ~irDecoded
  /\ zahtjevZaGasenjeIR

\* The timestamp that the comparison of this run reads.
Zadnje == IF usporedba = "blink" THEN prethodno ELSE lastInterruptTime

\* C34: the elapsed-time comparisons stay correct across the wrap-around of
\* the 32-bit millisecond counter.  The unsigned difference of the clock and
\* the stored timestamp is the time that really passed, also with the wrap
\* between the two; so the blink test holds exactly from 300 ms on and the
\* debounce test exactly above 250 ms, a toggle or an accepted press happens
\* only then, and each restarts the measurement at the current clock value.
C34_WrapSafe ==
  /\ [](IF stvarno < StvarnoCap
        THEN Sub32(millisSad, Zadnje) = <<0, stvarno>>
        ELSE Ge32(Sub32(millisSad, Zadnje), StvarnoCap))
  /\ [](IstekaoInterval32(millisSad, Zadnje) <=> stvarno >= interval)
  /\ [](DebounceProsao32(millisSad, Zadnje) <=> stvarno > DebounceMs)
  /\ [][stanje' # stanje => (stvarno >= interval /\ prethodno' = millisSad)]_vars
  /\ [][lastInterruptTime' # lastInterruptTime =>
          (stvarno > DebounceMs /\ lastInterruptTime' = millisSad /\ wakeUpByButton')]_vars

\* A toggle was made less than 300 ms after the wrap-around, so with the
\* earlier timestamp from before it; the clock has passed on since.
C34_Witness ==
  /\ usporedba = "blink"
  /\ stanje
  /\ prethodno[1] = 0 /\ prethodno[2] < interval
  /\ stvarno > 0

\* C35: in the sleep/wake program there is no indefinite power-down and no
\* lost wake.  With the watchdog firing, every halt ends; every wake flag
\* that is set is eventually taken by its LED response, which clears the
\* flag as it switches the LED on; and enterSleep is called only after both
\* flags were read false.
C35_NoLostWake ==
  /\ (pc = "sw_halted") ~> (pc # "sw_halted")
  /\ wakeUpByButton ~> (pc = "sw_btn_hold" /\ led = HIGH)
  /\ wakeUpByWDT ~> (pc = "sw_wdt_hold" /\ led = HIGH)
  /\ [][(pc' = "sw_btn_hold" /\ pc # "sw_btn_hold") =>
          (wakeUpByButton /\ ~wakeUpByButton' /\ led' = HIGH)]_vars
  /\ [][(pc' = "sw_wdt_hold" /\ pc # "sw_wdt_hold") =>
          (wakeUpByWDT /\ ~wakeUpByWDT' /\ led' = HIGH)]_vars
  /\ [][(pc' = "sw_sleep" /\ pc # "sw_sleep") =>
          (~wakeUpByButton /\ ~wakeUpByWDT)]_vars

\* C36: the processor is never halted in sleep while a wake flag is pending,
\* also when the interrupt handler sets the flag between the test of the two
\* flags (line 57) and sleep_cpu (line 98).
C36_NoSleepWithPendingFlag ==
  pc = "sw_halted" => (~wakeUpByButton /\ ~wakeUpByWDT)

\* C37: in the two-button program no update of a flag is lost between the
\* handler setting it and the loop clearing it.  A press that no LED response
\* has answered yet keeps its flag set, also when the press came while the
\* loop was still in the response to an earlier press of the same button.
C37_NoLostPress ==
  /\ neodgovoren1 => flag1
  /\ neodgovoren2 => flag2

\* The LED of a priority is lit and its hold time has passed since it was
\* lit last.
DrziPredugoHigh == prioLed["high"] = HIGH /\ ProsloVrijeme("high")
DrziPredugoMed == prioLed["med"] = HIGH /\ ProsloVrijeme("med")
DrziPredugoLow == prioLed["low"] = HIGH /\ ProsloVrijeme("low")

\* C38: in the priority-button program every LED that a handled press has
\* lit is switched off once its hold time has passed since the press handled
\* last, also for a press handled while millis() reads 0: an LED whose hold
\* time has passed is switched off by the loop (or lit anew by another
\* press), and the loop switches an LED off at no other time.
C38_LedsGoOff ==
  /\ DrziPredugoHigh ~> ~DrziPredugoHigh
  /\ DrziPredugoMed ~> ~DrziPredugoMed
  /\ DrziPredugoLow ~> ~DrziPredugoLow
  /\ [][\A p \in Prioriteti :
          (prioLed[p] = HIGH /\ prioLed'[p] = LOW) => ProsloVrijeme(p)]_vars

====
